---------------------------- MODULE Spec2Model ----------------------------
(***************************************************************************)
(* Model of the App component of meeting-translator (src/App.jsx): the     *)
(* React state of the component, its event handlers, and the life of a     *)
(* translation request from the click to the continuation that runs when   *)
(* the generation collaborator resolves or rejects.                        *)
(*                                                                         *)
(* JavaScript strings are TLA+ strings; includes, replace and the template *)
(* literals are computed on them with Len, SubSeq and \o.  The module is    *)
(* ASCII, so the three non-ASCII glyphs of the source are written as the   *)
(* HTML character references that render to them.                          *)
(***************************************************************************)
EXTENDS Integers, Sequences, FiniteSets, TLC

-----------------------------------------------------------------------------
(* Bounds of the model *)

\* Requests that may be outstanding at once before the page's button is
\* no longer pressed.
MaxInflight == 2

\* Direct calls of the handler that may be outstanding at once (1: the caller
\* awaits each call before it makes the next).
MaxPending == 1

-----------------------------------------------------------------------------
(* Program constants *)

\* App.jsx:8
STYLES == <<"Gen Z", "Shakespeare", "Corporate", "Yoda", "Pirate", "Rap", "Victorian Era">>

StyleCatalog == {STYLES[i] : i \in 1..Len(STYLES)}

\* Glyphs of the source, as character references.
CROSS == "&#10060;"
WARN == "&#9888;&#65039;"
BULLET == "&#8226;"

\* App.jsx:47, 53, 81, 83, 85, 87
MSG_VALIDATION == WARN \o " Please enter text and select a style first."
MSG_NO_KEY == CROSS \o " API key not found. Please check your .env file."
MSG_INVALID_KEY == CROSS \o " Invalid API key. Please check your environment variables."
MSG_QUOTA == CROSS \o " API quota exceeded. Please try again later."
MSG_SAFETY == CROSS \o " The response was blocked due to safety settings. Please try a different input."
MSG_UNKNOWN_PREFIX == CROSS \o " An error occurred: "

-----------------------------------------------------------------------------
(* The environment: what the user types and picks, the build's API key,    *)
(* and what the collaborator may answer.                                   *)

\* Values the textarea may hold.
Texts == {"", " ", "notes"}

\* Radio buttons the user presses (each is a member of STYLES).
Picked == {STYLES[4], STYLES[5]}

\* import.meta.env.VITE_GEMINI_API_KEY: undefined and "" are both falsy.
ApiKeys == {"", "key"}

\* Texts the collaborator may generate.
GeneratedTexts == {"Hello **world**\n* item one", "Arr, matey!"}

\* A rejection value.  nullish: the value is null or undefined (reading a
\* property of it throws).  hasMessage: the value has a string message.
Err(m) == [nullish |-> FALSE, hasMessage |-> TRUE, message |-> m]
NoMessage == [nullish |-> FALSE, hasMessage |-> FALSE, message |-> ""]
Nullish == [nullish |-> TRUE, hasMessage |-> FALSE, message |-> ""]

ErrorMessages ==
    { "[400] API_KEY_INVALID",
      "API key not valid",
      "quota exceeded",
      "rate limit reached",
      "SAFETY",
      "prompt blocked",
      "network down",
      "API key quota exceeded",
      "blocked: rate limit",
      "model **flash** not found" }

Rejections == {Err(m) : m \in ErrorMessages} \cup {NoMessage, Nullish}

\* What the collaborator answers to one call.
Resolved(t) == [ok |-> TRUE, text |-> t, error |-> NoMessage]
Rejected(e) == [ok |-> FALSE, text |-> "", error |-> e]
Responses == {Resolved(t) : t \in GeneratedTexts} \cup {Rejected(e) : e \in Rejections}

\* The collaborator: the live service, which may answer anything, or a
\* deterministic stub: one that echoes the prompt, or one that always gives
\* the same answer.
Live == [mode |-> "live", answer |-> Rejected(NoMessage)]
Echo == [mode |-> "echo", answer |-> Rejected(NoMessage)]
Always(r) == [mode |-> "always", answer |-> r]
Collaborators ==
    {Live, Echo} \cup
    {Always(r) : r \in {Resolved("Arr, matey!"), Rejected(Err("quota exceeded")), Rejected(Nullish)}}

-----------------------------------------------------------------------------
(* String functions *)

\* String.prototype.includes
Includes(s, sub) ==
    \E i \in 1..(Len(s) - Len(sub) + 1) : SubSeq(s, i, i + Len(sub) - 1) = sub

\* The least member of a set of positions, 0 when the set is empty.
Least(S) == IF S = {} THEN 0 ELSE CHOOSE i \in S : \A k \in S : i <= k

\* Position of the "**" that closes a bold span opened at position i:
\* /\*\*(.*?)\*\*/ is lazy, so it is the first one at or after i + 2, and
\* . matches no newline, so no newline lies between the two.  0 when there
\* is none.
CloseAt(s, i) ==
    Least({j \in (i + 2)..(Len(s) - 1) :
             /\ SubSeq(s, j, j + 1) = "**"
             /\ ~Includes(SubSeq(s, i + 2, j - 1), "\n")})

\* Position of the leftmost match of /\*\*(.*?)\*\*/ in s, 0 when there is none.
OpenAt(s) ==
    Least({i \in 1..(Len(s) - 3) : SubSeq(s, i, i + 1) = "**" /\ CloseAt(s, i) # 0})

\* .replace(/\*\*(.*?)\*\*/g, '<strong>$1</strong>'): match after match, left
\* to right, each search starting where the last match ended.
RECURSIVE ReplaceBold(_)
ReplaceBold(s) ==
    LET i == OpenAt(s)
        j == CloseAt(s, i)
    IN  IF i = 0 THEN s
        ELSE SubSeq(s, 1, i - 1)
             \o "<strong>" \o SubSeq(s, i + 2, j - 1) \o "</strong>"
             \o ReplaceBold(SubSeq(s, j + 2, Len(s)))

\* Position of the first newline of s, 0 when there is none.
FirstNewline(s) == Least({i \in 1..Len(s) : SubSeq(s, i, i) = "\n"})

\* One line under /^\* (.+)$/ -> '&bull; $1': .+ needs one character or more.
BulletLine(l) ==
    IF Len(l) >= 3 /\ SubSeq(l, 1, 2) = "* "
    THEN BULLET \o " " \o SubSeq(l, 3, Len(l))
    ELSE l

\* .replace(/^\* (.+)$/gm, ...): the m flag applies the rule line by line.
RECURSIVE ReplaceBullets(_)
ReplaceBullets(s) ==
    LET nl == FirstNewline(s)
    IN  IF nl = 0 THEN BulletLine(s)
        ELSE BulletLine(SubSeq(s, 1, nl - 1)) \o "\n"
             \o ReplaceBullets(SubSeq(s, nl + 1, Len(s)))

formatMarkdown(text) == ReplaceBullets(ReplaceBold(text))

\* error.message?.includes(sub): undefined (falsy) when there is no message.
MessageIncludes(error, sub) == error.hasMessage /\ Includes(error.message, sub)

\* `${error.message}`
MessageText(error) == IF error.hasMessage THEN error.message ELSE "undefined"

\* Variant: the quota rule is tested before the credential rule.
ClassifyQuotaFirst(error) ==
    IF MessageIncludes(error, "quota") \/ MessageIncludes(error, "limit")
    THEN MSG_QUOTA
    ELSE IF MessageIncludes(error, "API_KEY_INVALID") \/ MessageIncludes(error, "API key")
    THEN MSG_INVALID_KEY
    ELSE IF MessageIncludes(error, "SAFETY") \/ MessageIncludes(error, "blocked")
    THEN MSG_SAFETY
    ELSE MSG_UNKNOWN_PREFIX \o MessageText(error)

\* Variant: the quota rule tests "limit" alone.
ClassifyLimitOnly(error) ==
    IF MessageIncludes(error, "API_KEY_INVALID") \/ MessageIncludes(error, "API key")
    THEN MSG_INVALID_KEY
    ELSE IF MessageIncludes(error, "limit")
    THEN MSG_QUOTA
    ELSE IF MessageIncludes(error, "SAFETY") \/ MessageIncludes(error, "blocked")
    THEN MSG_SAFETY
    ELSE MSG_UNKNOWN_PREFIX \o MessageText(error)

\* The if / else-if chain of the catch block: the output it sets.
Classify(error) ==
    IF MessageIncludes(error, "API_KEY_INVALID") \/ MessageIncludes(error, "API key")
    THEN MSG_INVALID_KEY
    ELSE IF MessageIncludes(error, "quota") \/ MessageIncludes(error, "limit")
    THEN MSG_QUOTA
    ELSE IF MessageIncludes(error, "SAFETY") \/ MessageIncludes(error, "blocked")
    THEN MSG_SAFETY
    ELSE MSG_UNKNOWN_PREFIX \o MessageText(error)

-----------------------------------------------------------------------------
(* State *)

VARIABLES
    input,          \* useState: the textarea's text
    output,         \* useState: the text shown in the output card
    selectedStyle,  \* useState: the chosen style, "" when none
    loading,        \* useState: the loading flag
    theme,          \* useState: "dark" or "light"
    apiKey,         \* import.meta.env.VITE_GEMINI_API_KEY, fixed by the build
    collaborator,   \* the generation collaborator behind genAI
    inflight,       \* handleTranslate calls suspended at the await, oldest first
    last            \* history: the handleTranslate call that finished last

vars == <<input, output, selectedStyle, loading, theme, apiKey, collaborator,
          inflight, last>>

\* No call has finished yet.
NoCall ==
    [path |-> "none", input |-> "", style |-> "", output |-> "", calls |-> 0,
     error |-> NoMessage, repeat |-> FALSE]

\* A finished call: the path it took through handleTranslate, the input and
\* style it read, the output it set ("" when it threw before setting one),
\* the generateContent calls it made, the
\* rejection it handled, and whether the call that finished before it had
\* read the same input and style.
Finished(path, in, style, out, calls, error) ==
    [path |-> path, input |-> in, style |-> style, output |-> out,
     calls |-> calls, error |-> error,
     repeat |-> (last.path # "none" /\ last.input = in /\ last.style = style)]

Init ==
    /\ input = ""
    /\ output = ""
    /\ selectedStyle = ""
    /\ loading = FALSE
    /\ theme = "dark"
    /\ apiKey \in ApiKeys
    /\ collaborator \in Collaborators
    /\ inflight = <<>>
    /\ last = NoCall

-----------------------------------------------------------------------------
(* Rendering *)

\* Variant: the button ignores the loading flag.
DisabledIgnoringLoading == input = "" \/ selectedStyle = ""

\* The translate button's disabled attribute.
Disabled == loading \/ input = "" \/ selectedStyle = ""

\* The HTML of the output card's content; "" when the card is not rendered.
Rendered == IF output # "" THEN formatMarkdown(output) ELSE ""

-----------------------------------------------------------------------------
(* Handlers *)

handleInputChange(value) ==
    /\ input' = value
    /\ UNCHANGED <<output, selectedStyle, loading, theme, apiKey, collaborator,
                   inflight, last>>

handleSelectedStyle(value) ==
    /\ selectedStyle' = value
    /\ UNCHANGED <<input, output, loading, theme, apiKey, collaborator,
                   inflight, last>>

toggleTheme ==
    /\ theme' = IF theme = "dark" THEN "light" ELSE "dark"
    /\ UNCHANGED <<input, output, selectedStyle, loading, apiKey, collaborator,
                   inflight, last>>

\* Variant: the prompt carries the output of the render the handler closed
\* over, as a multi-turn conversation would.
PromptWithHistory(style, text) ==
    "Rewrite the following meeting notes in " \o style \o " style:\n\n" \o text
    \o output

\* The template literal of the prompt.
Prompt(style, text) ==
    "Rewrite the following meeting notes in " \o style \o " style:\n\n" \o text

\* Variant: the validation tests the text alone.
MissingInputTextOnly == input = ""

\* if (!input || !selectedStyle)
MissingInput == input = "" \/ selectedStyle = ""

\* Variant: the API key is not tested.
MissingKeyUnchecked == FALSE

\* if (!import.meta.env.VITE_GEMINI_API_KEY)
MissingKey == apiKey = ""

\* handleTranslate up to its first await: the two early returns, or the call
\* of generateContent.
handleTranslate ==
    IF MissingInput
    THEN /\ output' = MSG_VALIDATION
         /\ last' = Finished("validation", input, selectedStyle, MSG_VALIDATION, 0, NoMessage)
         /\ UNCHANGED <<input, selectedStyle, loading, theme, apiKey, collaborator, inflight>>
    ELSE IF MissingKey
    THEN /\ output' = MSG_NO_KEY
         /\ last' = Finished("config", input, selectedStyle, MSG_NO_KEY, 0, NoMessage)
         /\ UNCHANGED <<input, selectedStyle, loading, theme, apiKey, collaborator, inflight>>
    ELSE /\ loading' = TRUE
         /\ output' = ""
         /\ inflight' = Append(inflight,
                [input |-> input, style |-> selectedStyle,
                 prompt |-> Prompt(selectedStyle, input), calls |-> 1])
         /\ UNCHANGED <<input, selectedStyle, theme, apiKey, collaborator, last>>

\* The button's onClick: a disabled button delivers no click.
clickTranslate == ~Disabled /\ handleTranslate

\* What the collaborator may answer to a prompt.
Answers(prompt) ==
    IF collaborator.mode = "live" THEN Responses
    ELSE IF collaborator.mode = "echo" THEN {Resolved(prompt)}
    ELSE {collaborator.answer}

Remove(seq, i) == SubSeq(seq, 1, i - 1) \o SubSeq(seq, i + 1, Len(seq))

\* The collaborator resolves request i: the rest of the try block, then finally.
resolve(i, text) ==
    /\ output' = text
    /\ loading' = FALSE
    /\ inflight' = Remove(inflight, i)
    /\ last' = Finished("success", inflight[i].input, inflight[i].style, text,
                        inflight[i].calls, NoMessage)
    /\ UNCHANGED <<input, selectedStyle, theme, apiKey, collaborator>>

\* Variant: a rejected call is made once more before the error is handled.
rejectWithRetry(i, error) ==
    IF inflight[i].calls < 2
    THEN /\ inflight' = [inflight EXCEPT ![i].calls = @ + 1]
         /\ UNCHANGED <<input, output, selectedStyle, loading, theme, apiKey,
                        collaborator, last>>
    ELSE /\ output' = IF error.nullish THEN output ELSE Classify(error)
         /\ loading' = FALSE
         /\ inflight' = Remove(inflight, i)
         /\ last' = Finished(IF error.nullish THEN "threw" ELSE "catch",
                             inflight[i].input, inflight[i].style,
                             IF error.nullish THEN "" ELSE Classify(error),
                             inflight[i].calls, error)
         /\ UNCHANGED <<input, selectedStyle, theme, apiKey, collaborator>>

\* Variant: no finally block, so a rejection leaves the loading flag set.
rejectWithoutFinally(i, error) ==
    /\ output' = IF error.nullish THEN output ELSE Classify(error)
    /\ inflight' = Remove(inflight, i)
    /\ last' = Finished(IF error.nullish THEN "threw" ELSE "catch",
                        inflight[i].input, inflight[i].style,
                        IF error.nullish THEN "" ELSE Classify(error),
                        inflight[i].calls, error)
    /\ UNCHANGED <<input, selectedStyle, loading, theme, apiKey, collaborator>>

\* The collaborator rejects request i: the catch block, then finally.  Reading
\* error.message of null or undefined throws out of the catch block: no output
\* is set, finally still runs and the exception leaves handleTranslate.
reject(i, error) ==
    /\ output' = IF error.nullish THEN output ELSE Classify(error)
    /\ loading' = FALSE
    /\ inflight' = Remove(inflight, i)
    /\ last' = Finished(IF error.nullish THEN "threw" ELSE "catch",
                        inflight[i].input, inflight[i].style,
                        IF error.nullish THEN "" ELSE Classify(error),
                        inflight[i].calls, error)
    /\ UNCHANGED <<input, selectedStyle, theme, apiKey, collaborator>>

Settle(i) ==
    \E r \in Answers(inflight[i].prompt) :
        IF r.ok THEN resolve(i, r.text) ELSE reject(i, r.error)

-----------------------------------------------------------------------------
(* Specifications *)

InputChange == \E v \in Texts : handleInputChange(v)
SelectStyle == \E s \in Picked : handleSelectedStyle(s)
ToggleTheme == toggleTheme
Click == Len(inflight) < MaxInflight /\ clickTranslate
Invoke == Len(inflight) < MaxPending /\ handleTranslate
Respond == \E i \in 1..Len(inflight) : Settle(i)

\* The component as the page runs it: handleTranslate runs on a click.
Next == InputChange \/ SelectStyle \/ ToggleTheme \/ Click \/ Respond
Spec == Init /\ [][Next]_vars

\* The handler called directly, whatever the button's state.
NextHandler == InputChange \/ SelectStyle \/ ToggleTheme \/ Invoke \/ Respond
SpecHandler == Init /\ [][NextHandler]_vars

-----------------------------------------------------------------------------
(* Vocabulary of the properties *)

\* The error categories, read off the message a call set.
StartsWith(s, p) == Len(s) >= Len(p) /\ SubSeq(s, 1, Len(p)) = p

Category(out) ==
    IF out = MSG_VALIDATION THEN "ValidationError"
    ELSE IF out = MSG_NO_KEY THEN "ConfigurationError"
    ELSE IF out = MSG_INVALID_KEY THEN "AuthError"
    ELSE IF out = MSG_QUOTA THEN "QuotaError"
    ELSE IF out = MSG_SAFETY THEN "ContentPolicyError"
    ELSE IF StartsWith(out, MSG_UNKNOWN_PREFIX) THEN "UnknownError"
    ELSE "none"

\* The rules of the classification, one by one.
MentionsCredential(m) == Includes(m, "API_KEY_INVALID") \/ Includes(m, "API key")
MentionsQuota(m) == Includes(m, "quota") \/ Includes(m, "limit")
MentionsSafety(m) == Includes(m, "SAFETY") \/ Includes(m, "blocked")

\* The category of the first rule a message matches.
FirstRule(m) ==
    IF MentionsCredential(m) THEN "AuthError"
    ELSE IF MentionsQuota(m) THEN "QuotaError"
    ELSE IF MentionsSafety(m) THEN "ContentPolicyError"
    ELSE "UnknownError"

\* A text of white space only (the empty text included).
Blank(s) == \A i \in 1..Len(s) : SubSeq(s, i, i) \in {" ", "\n", "\t"}

\* The last call finished (by any path).
HasFinished == last.path # "none"

\* The last call went as far as the collaborator and the collaborator rejected.
WasRejected == last.path \in {"catch", "threw"}

-----------------------------------------------------------------------------
(* C1 *)

\* C1, as the claim states it: a call whose text is empty or blank, or whose
\* style is not in the catalog, ends in the validation failure and never
\* reaches the collaborator.
C1_BlankOrNoStyleIsValidationError ==
    /\ \A i \in 1..Len(inflight) :
          ~Blank(inflight[i].input) /\ inflight[i].style \in StyleCatalog
    /\ (HasFinished /\ (Blank(last.input) \/ last.style \notin StyleCatalog))
          => /\ last.path = "validation"
             /\ Category(last.output) = "ValidationError"
             /\ last.calls = 0

\* C1, amended: a call whose text is the empty string, or whose style is not
\* in the catalog, ends in the validation failure and never reaches the
\* collaborator (a text of white space only is not empty, and passes).
C1_EmptyOrNoStyleIsValidationError ==
    /\ \A i \in 1..Len(inflight) :
          inflight[i].input # "" /\ inflight[i].style \in StyleCatalog
    /\ (HasFinished /\ (last.input = "" \/ last.style \notin StyleCatalog))
          => /\ last.path = "validation"
             /\ Category(last.output) = "ValidationError"
             /\ last.calls = 0

\* A call with the empty text and a chosen style has ended in the validation
\* failure, which is on display.
C1_Witness ==
    /\ last.path = "validation"
    /\ last.input = ""
    /\ last.style \in StyleCatalog
    /\ output = MSG_VALIDATION

-----------------------------------------------------------------------------
(* C2 *)

\* C2: with no API key, a call with a text and a style ends in the
\* configuration failure; the collaborator is never called and the loading
\* flag is never set.
C2_NoKeyIsConfigurationError ==
    apiKey = "" =>
        /\ ~loading
        /\ inflight = <<>>
        /\ (HasFinished /\ last.input # "" /\ last.style \in StyleCatalog)
              => /\ last.path = "config"
                 /\ Category(last.output) = "ConfigurationError"
                 /\ last.calls = 0

\* A call with a text and a style has ended in the configuration failure.
C2_Witness ==
    /\ apiKey = ""
    /\ last.path = "config"
    /\ last.input # ""
    /\ last.style \in StyleCatalog
    /\ output = MSG_NO_KEY

-----------------------------------------------------------------------------
(* C3 *)

\* C3: a rejection that carries a message is given the category of the first
\* rule its message matches, in the order credential, quota, safety; when no
\* rule matches, the category is UnknownError and the output carries the
\* message as it came.
C3_FirstMatchingRuleWins ==
    (last.path = "catch" /\ last.error.hasMessage) =>
        /\ Category(last.output) = FirstRule(last.error.message)
        /\ FirstRule(last.error.message) = "UnknownError"
              => last.output = MSG_UNKNOWN_PREFIX \o last.error.message

\* A message that matches the credential rule and the quota rule has been
\* classified as AuthError, which is on display.
C3_Witness ==
    /\ last.path = "catch"
    /\ last.error.hasMessage
    /\ MentionsCredential(last.error.message)
    /\ MentionsQuota(last.error.message)
    /\ output = MSG_INVALID_KEY

-----------------------------------------------------------------------------
(* C4 *)

\* C4, as the claim states it: every rejection whose message contains
\* "quota" ends in QuotaError.
C4_QuotaMessageIsQuotaError ==
    (WasRejected /\ MessageIncludes(last.error, "quota"))
        => Category(last.output) = "QuotaError"

\* C4, amended: every rejection whose message contains "quota" and neither
\* "API_KEY_INVALID" nor "API key" ends in QuotaError.
C4_QuotaMessageWithoutCredentialIsQuotaError ==
    (/\ WasRejected
     /\ MessageIncludes(last.error, "quota")
     /\ ~MessageIncludes(last.error, "API_KEY_INVALID")
     /\ ~MessageIncludes(last.error, "API key"))
        => Category(last.output) = "QuotaError"

\* A rejection whose message contains "quota" and no credential wording has
\* ended in QuotaError, which is on display.
C4_Witness ==
    /\ last.path = "catch"
    /\ MessageIncludes(last.error, "quota")
    /\ ~MentionsCredential(last.error.message)
    /\ output = MSG_QUOTA

-----------------------------------------------------------------------------
(* C5 *)

\* C5: an error message on display is rendered as it is, without the bold and
\* bullet substitution.
C5_ErrorMessagesAreNotFormatted ==
    (/\ last.path \in {"validation", "config", "catch"}
     /\ output = last.output
     /\ output # "")
        => Rendered = output

-----------------------------------------------------------------------------
(* C6 *)

\* C6: at most one request is in flight, and while one is, the loading flag
\* is set and the button is disabled.
C6_AtMostOneInFlight ==
    /\ Len(inflight) <= 1
    /\ inflight # <<>> => (loading /\ Disabled)

\* A request is in flight while the user has since typed another text and
\* picked another style.
C6_Witness ==
    /\ Len(inflight) = 1
    /\ input # ""
    /\ input # inflight[1].input
    /\ selectedStyle # inflight[1].style
    /\ Disabled

-----------------------------------------------------------------------------
(* C7 *)

\* C7: a call that passes the validation and the credential check goes to the
\* collaborator and calls it exactly once, whether it succeeds or fails.
C7_ExactlyOneCall ==
    /\ \A i \in 1..Len(inflight) : inflight[i].calls = 1
    /\ (HasFinished /\ last.input # "" /\ last.style # "" /\ apiKey # "")
          => /\ last.path \in {"success", "catch", "threw"}
             /\ last.calls = 1

\* A call has been rejected and has finished with its one call.
C7_Witness ==
    /\ last.path = "catch"
    /\ last.calls = 1
    /\ inflight = <<>>

-----------------------------------------------------------------------------
(* C8 *)

\* C8: whatever the collaborator rejects with, no exception leaves the handler
\* and the call sets one of the failure messages.
C8_EveryRejectionIsRecovered ==
    WasRejected =>
        /\ last.path = "catch"
        /\ Category(last.output)
              \in {"AuthError", "QuotaError", "ContentPolicyError", "UnknownError"}

-----------------------------------------------------------------------------
(* C9 *)

\* C9: against a deterministic collaborator, a call that finishes after a call
\* with the same text and style (and the same API key) has the same result,
\* whatever state the earlier calls left.
C9_Idempotent ==
    [][(/\ collaborator.mode # "live"
        /\ HasFinished
        /\ last'.input = last.input
        /\ last'.style = last.style)
          => (/\ last'.path = last.path
              /\ last'.output = last.output
              /\ last'.calls = last.calls)]_vars

\* Against the stub that echoes the prompt, a call has succeeded right after
\* a call with the same text and style.
C9_Witness ==
    /\ collaborator.mode = "echo"
    /\ last.repeat
    /\ last.path = "success"
    /\ output = last.output

-----------------------------------------------------------------------------
(* C10 *)

\* C10: while a request is in flight the loading flag is set and the output
\* is empty; once the collaborator has resolved or rejected, on every path,
\* the flag is off again.
C10_LoadingFollowsTheRequest ==
    /\ inflight # <<>> => (loading /\ output = "")
    /\ inflight = <<>> => ~loading

\* A rejection has been handled and the button can be pressed again.
C10_Witness ==
    /\ WasRejected
    /\ inflight = <<>>
    /\ ~loading
    /\ ~Disabled

=============================================================================
